---------------------------- MODULE Spec2Model ----------------------------
(***************************************************************************)
(* Model of the CEP pipeline: the lookup client (src/get_cep_info.py), the *)
(* fetch fan-out of executar_pipeline (src/etl.py), the rate gate          *)
(* (src/rate_limit.py), the validator (src/data_transformation.py), the    *)
(* error categoriser (src/export_data.py) and the SQLite gateway           *)
(* (src/database.py).                                                      *)
(*                                                                         *)
(* Text is modelled as sequences of tokens.  A key is a sequence of        *)
(* one-character tokens; "SUP2" stands for U+00B2 (superscript two), a     *)
(* character for which Python's str.isdigit() is True.  A message is a     *)
(* sequence of word tokens, cut so that every keyword the categoriser      *)
(* searches for is a token of its own; accents are dropped in the tokens   *)
(* ("invalido" is the source's "inválido", "conexao" is "conexão").        *)
(* Time is counted in hundredths of a second.                              *)
(***************************************************************************)
EXTENDS Integers, Sequences, FiniteSets, TLC

VARIABLES
    \* ---- fetch pipeline (etl.py, get_cep_info.py) ----
    ceps,               \* the key list handed to executor.map
    is_local,           \* whether consulta_fn is consultar_cep_mock
    roteiro,            \* the service's behaviour for each key (its answers, attempt by attempt)
    fila,               \* index of the next work item no pool thread has taken
    futures,            \* one future per key
    pc,                 \* pool thread -> "ocioso" | "dormindo" | "requisitando"
    idx,                \* pool thread -> index of the key it is working on
    tentativas,         \* pool thread -> outbound calls already made for its key
    acorda,             \* pool thread -> instant its current sleep ends
    resultados_brutos,  \* the list built from executor.map
    fase,               \* main thread: "consultando" | "coletado" | "finalizado" | "abortado"
    erros_csv,          \* the error table of preparar_csv_erros
    n_chamadas,         \* key index -> outbound calls issued for it
    ultima_chamada,     \* instant the latest outbound call started (-1: none yet)
    menor_intervalo,    \* smallest gap seen between two outbound call starts (-1: none yet)
    relogio,            \* time.monotonic()
    \* ---- rate gate (rate_limit.py) ----
    ultimo_acesso,      \* _ultimo_acesso
    lock,               \* holder of _lock (0: free)
    pcg,                \* caller -> "fora" | "aguardando" | "dentro"
    lido,               \* caller -> the _ultimo_acesso it read
    acorda_g,           \* caller -> instant its sleep inside the gate ends
    permitidos,         \* the acquire calls permitted so far: who, what it read, when
    n_acessos,          \* caller -> acquire calls completed
    \* ---- storage (database.py) ----
    db_arquivo,         \* whether base_enderecos.db exists
    tabela_existe,      \* whether the table enderecos exists
    enderecos,          \* the rows of the table, in rowid order
    seq_id,             \* sqlite_sequence of the table: the largest id_endereco given out
    op,                 \* the latest storage operation
    lote,               \* the DataFrame it was given
    excecao,            \* the exception it raised ("": none)
    antes,              \* the rows of the table when it was called
    repetido,           \* whether it repeated the successful insert just before it
    op_antes,           \* the storage operation before the latest one
    seq_antes,          \* sqlite_sequence when the latest operation was called
    \* ---- validator (data_transformation.py) ----
    df_sucesso,         \* the successful outcomes of a run
    df_normal,          \* normalizar_resultados(df_sucesso)
    df_final,           \* validar_dados_transformados(df_normal)
    avisos,             \* the warnings emitted
    etapa               \* "inicio" | "normalizado" | "validado"

varsPipeline == <<ceps, is_local, roteiro, fila, futures, pc, idx, tentativas, acorda,
                  resultados_brutos, fase, erros_csv, n_chamadas,
                  ultima_chamada, menor_intervalo>>
varsGate == <<ultimo_acesso, lock, pcg, lido, acorda_g, permitidos, n_acessos>>
varsBD == <<db_arquivo, tabela_existe, enderecos, seq_id, op, lote, excecao, antes, repetido,
           op_antes, seq_antes>>
varsValid == <<df_sucesso, df_normal, df_final, avisos, etapa>>
vars == <<varsPipeline, relogio, varsGate, varsBD, varsValid>>

-----------------------------------------------------------------------------
\* Bounds of the model.
NumWorkers == 2
MaxCeps == 3
MaxLoteCeps == 2
MaxAcessos == 2
MaxLote == 2
MaxRegistros == 3
PassoRelogio == 35
MaxTempo == 420

\* Program constants.
AtrasoConsulta == 20
RetryTotal == 5
BackoffFactor == 200
IntervaloMinimo == 105

Workers == 1..NumWorkers

-----------------------------------------------------------------------------
\* Keys.  A key read from the input file is a str or, for an empty cell, a float NaN.
Str(s) == [tipo |-> "str", txt |-> s]
NaN == [tipo |-> "float", txt |-> <<>>]

DigitosAscii == {"0", "1", "2", "3", "4", "5", "6", "7", "8", "9"}
\* Characters for which str.isdigit() is True: the ASCII digits and, among
\* others, the superscript digits.
DigitosPython == DigitosAscii \cup {"SUP2"}
Brancos == {" ", "TAB"}

\* str.replace(c, "")
Replace(s, c) == SelectSeq(s, LAMBDA x : x # c)

RECURSIVE LStrip(_)
LStrip(s) == IF s # <<>> /\ Head(s) \in Brancos THEN LStrip(Tail(s)) ELSE s

RECURSIVE RStrip(_)
RStrip(s) ==
    IF s # <<>> /\ s[Len(s)] \in Brancos THEN RStrip(SubSeq(s, 1, Len(s) - 1)) ELSE s

\* str.strip()
Strip(s) == LStrip(RStrip(s))

\* str.isdigit(): non-empty and every character a digit
IsDigit(s) == s # <<>> /\ \A i \in 1..Len(s) : s[i] \in DigitosPython

SemCep == [ok |-> FALSE, txt |-> <<>>]

\* _validar_input_cep: None (SemCep) or the cleaned key
ValidarInputCep(cep_raw) ==
    IF cep_raw.tipo # "str" THEN SemCep
    ELSE LET cep_limpo == Strip(Replace(Replace(cep_raw.txt, "-"), "."))
         IN IF Len(cep_limpo) # 8 \/ ~IsDigit(cep_limpo) THEN SemCep
            ELSE [ok |-> TRUE, txt |-> cep_limpo]


-----------------------------------------------------------------------------
\* Messages.
MsgFormatoInvalido ==
    <<"Formato", "invalido", ":", "CEP", "deve", "conter", "exatamente",
      "8", "digitos", "numericos", ".">>
MsgInexistente == <<"CEP", "invalido", "ou", "inexistente", ".">>
MsgHttp(status) == <<"Erro", "HTTP", ToString(status)>>
MsgConexao(texto) == <<"Erro", "de", "conexao", ":">> \o texto

\* str(e) of the exceptions session.get and response.json() raise.
\* requests.exceptions.RetryError: retries exhausted on a status of the forcelist
TextoRetryError(status) ==
    <<"HTTP", "SConnectionPool", "Max", "retries", "exceeded", "Caused", "by",
      "ResponseError", "too", "many", ToString(status), "error", "responses">>
\* requests.exceptions.ConnectionError: retries exhausted on transport errors
TextoMaxRetries ==
    <<"HTTP", "SConnectionPool", "Max", "retries", "exceeded", "Caused", "by",
      "ReadTimeoutError">>
\* an exception urllib3 does not retry (for example ChunkedEncodingError)
TextoTransporte == <<"Connection", "broken">>
\* response.json() on a body that is not JSON
TextoJson == <<"Expecting", "value">>
\* dic_retorno.get on a JSON value that is not an object
TextoAtributo == <<"object", "has", "no", "attribute", "get">>

\* str.lower() of a token
Lower(tok) ==
    CASE tok = "Formato" -> "formato"
      [] tok = "CEP" -> "cep"
      [] tok = "Erro" -> "erro"
      [] tok = "HTTP" -> "http"
      [] tok = "SConnectionPool" -> "sconnectionpool"
      [] tok = "Max" -> "max"
      [] tok = "Caused" -> "caused"
      [] tok = "ResponseError" -> "responseerror"
      [] tok = "ReadTimeoutError" -> "readtimeouterror"
      [] tok = "Connection" -> "connection"
      [] tok = "Expecting" -> "expecting"
      [] OTHER -> tok

\* palavra in mensagem.lower()
Contem(mensagem, palavra) == \E i \in 1..Len(mensagem) : Lower(mensagem[i]) = palavra

\* _categorizar_erro
CategorizarErro(mensagem) ==
    IF Contem(mensagem, "invalido") THEN "CEP_INVALIDO"
    ELSE IF Contem(mensagem, "inexistente") THEN "CEP_INEXISTENTE"
    ELSE IF Contem(mensagem, "conexao") \/ Contem(mensagem, "http") THEN "ERRO_CONEXAO"
    ELSE "OUTRO"

-----------------------------------------------------------------------------
\* The service.  An answer to one outbound attempt is a response with a status
\* and a body, or a transport error.
\* Field values are sequences of characters (the street name is one token).
SemDados == [tipo |-> "None", cep |-> <<>>, logradouro |-> <<>>, uf |-> <<>>]
Dados(c, l, u) == [tipo |-> "dict", cep |-> c, logradouro |-> l, uf |-> u]

CorpoVazio == [forma |-> "vazio", erro |-> FALSE, dados |-> SemDados]
\* a JSON object; erro: whether its "erro" entry is truthy
CorpoObjeto(erro, dados) == [forma |-> "objeto", erro |-> erro, dados |-> dados]
\* a JSON value that is no object (a list, a string, null)
CorpoNaoObjeto == [forma |-> "nao_objeto", erro |-> FALSE, dados |-> SemDados]
\* a body that is not JSON
CorpoNaoJson == [forma |-> "nao_json", erro |-> FALSE, dados |-> SemDados]

Resposta(status, corpo) == [tipo |-> "resposta", status |-> status, corpo |-> corpo]
\* a connection error or timeout, which urllib3 retries
ErroTransporte == [tipo |-> "erro_transporte", status |-> 0, corpo |-> CorpoVazio]
\* an exception raised past urllib3's retry loop
ExcecaoFinal == [tipo |-> "excecao", status |-> 0, corpo |-> CorpoVazio]

\* status_forcelist of the Retry strategy
StatusForcelist == {429, 500, 502, 503, 504}

\* Whether urllib3's Retry takes the answer as a reason to try again.
Transitoria(r) ==
    \/ r.tipo = "erro_transporte"
    \/ r.tipo = "resposta" /\ r.status \in StatusForcelist

\* A script: the transient answers the service gives first, then its final answer.
Roteiro(falhas, final) == [falhas |-> falhas, final |-> final]
RespostaDoServico(rot, n) == IF n <= Len(rot.falhas) THEN rot.falhas[n] ELSE rot.final

-----------------------------------------------------------------------------
\* consultar_cep.  What a call gives back: a returned dict or a raised exception.
ResultadoBase(cep) ==
    [cep |-> cep, status |-> "erro", dados |-> SemDados, mensagem |-> <<>>]
Retorno(resultado) == [tipo |-> "retorno", valor |-> resultado]
Propaga(cep) == [tipo |-> "excecao", valor |-> ResultadoBase(cep)]

\* Faulty variants of the except clause: a narrower clause that lets the
\* exception escape, and a message that leaves out str(e).
TratarExcecaoSemCaptura(cep, texto) == Propaga(cep)
TratarExcecaoSemTexto(cep, texto) ==
    Retorno([ResultadoBase(cep) EXCEPT !.mensagem = MsgConexao(<<>>)])

\* except Exception as e: resultado['mensagem'] = f"Erro de conexão: {str(e)}"
TratarExcecao(cep, texto) ==
    Retorno([ResultadoBase(cep) EXCEPT !.mensagem = MsgConexao(texto)])

\* The body of the try block once session.get has returned response r.
TratarResposta(cep, r) ==
    IF r.status = 200
    THEN CASE r.corpo.forma = "nao_json" -> TratarExcecao(cep, TextoJson)
           [] r.corpo.forma = "nao_objeto" -> TratarExcecao(cep, TextoAtributo)
           [] OTHER ->
                IF r.corpo.erro
                THEN Retorno([ResultadoBase(cep) EXCEPT !.mensagem = MsgInexistente])
                ELSE Retorno([ResultadoBase(cep) EXCEPT !.status = "sucesso",
                                                         !.dados = r.corpo.dados])
    ELSE Retorno([ResultadoBase(cep) EXCEPT !.mensagem = MsgHttp(r.status)])

\* consultar_cep from the last answer of session.get's retry loop on:
\* esgotado says that the answer was transient and no retry was left.
ConcluirConsulta(cep, r, esgotado) ==
    IF esgotado
    THEN IF r.tipo = "resposta"
         THEN TratarExcecao(cep, TextoRetryError(r.status))
         ELSE TratarExcecao(cep, TextoMaxRetries)
    ELSE IF r.tipo = "excecao"
         THEN TratarExcecao(cep, TextoTransporte)
         ELSE TratarResposta(cep, r)

\* Faulty variant of the validation branch: it returns without a message.
ConsultaInvalidaSemMensagem(cep) == Retorno(ResultadoBase(cep))

\* consultar_cep when the key fails validation
ConsultaInvalida(cep) ==
    Retorno([ResultadoBase(cep) EXCEPT !.mensagem = MsgFormatoInvalido])

\* preparar_csv_erros (the timestamp column is left out)
PrepararCsvErros(df) ==
    LET df_erro == SelectSeq(df, LAMBDA r : r.status = "erro")
    IN [i \in 1..Len(df_erro) |->
            [cep |-> df_erro[i].cep, mensagem |-> df_erro[i].mensagem,
             tipo_erro |-> CategorizarErro(df_erro[i].mensagem)]]

-----------------------------------------------------------------------------
\* Inputs of the model: raw keys and service scripts.
C(a, b, c, d, e, f, g, h) == <<a, b, c, d, e, f, g, h>>
Cep01001000 == Str(C("0", "1", "0", "0", "1", "0", "0", "0"))
Cep01001Traco000 == Str(<<"0", "1", "0", "0", "1", "-", "0", "0", "0">>)
CepFormatado == Str(<<" ", "0", "1", ".", "0", "0", "1", "-", "0", "0", "0", " ">>)
Cep99999999 == Str(C("9", "9", "9", "9", "9", "9", "9", "9"))
Cep123 == Str(<<"1", "2", "3">>)
Cep01001Traco00X == Str(<<"0", "1", "0", "0", "1", "-", "0", "0", "X">>)
CepEspacoInterno == Str(<<"0", "1", "0", "0", "1", " ", "0", "0", "0">>)
CepNoveDigitos == Str(<<"0", "1", "0", "0", "1", "0", "0", "0", "0">>)
CepVazio == Str(<<>>)
CepSobrescrito == Str(C("0", "1", "0", "0", "1", "0", "0", "SUP2"))

ChavesCliente ==
    {Cep01001000, Cep01001Traco000, CepFormatado, Cep99999999, Cep123,
     Cep01001Traco00X, CepEspacoInterno, CepNoveDigitos, CepVazio,
     CepSobrescrito, NaN}

CepFormatadoViaCep == <<"0", "1", "0", "0", "1", "-", "0", "0", "0">>
PracaDaSe == <<"Praca da Se">>
RuaDireita == <<"Rua Direita">>
UfSP == <<"S", "P">>
DadosSe == Dados(CepFormatadoViaCep, PracaDaSe, UfSP)
RespOk == Resposta(200, CorpoObjeto(FALSE, DadosSe))
RespInexistente == Resposta(200, CorpoObjeto(TRUE, SemDados))

\* Statuses the stub service answers with, besides 200.
StatusTransitorios == {429, 503}
StatusPermanentes == {400, 404}

Transitorias == {Resposta(st, CorpoVazio) : st \in StatusTransitorios} \cup {ErroTransporte}
\* the JSON object {}
DadosVazios == Dados(<<>>, <<>>, <<>>)
Finais ==
    {RespOk, RespInexistente, Resposta(200, CorpoObjeto(FALSE, DadosVazios)),
     Resposta(200, CorpoNaoObjeto),
     Resposta(200, CorpoNaoJson), ExcecaoFinal}
        \cup {Resposta(st, CorpoVazio) : st \in StatusPermanentes}

\* Sequences over S of length lo..hi
SeqsDe(S, lo, hi) == UNION {[1..n -> S] : n \in lo..hi}

\* Scripts of the client's specification: up to RetryTotal + 1 transient answers,
\* the earlier ones all alike, then any final answer.
FalhasCliente ==
    {[i \in 1..n |-> IF i < n THEN a ELSE b] :
        n \in 0..(RetryTotal + 1), a \in Transitorias, b \in Transitorias}
RoteirosCliente == {Roteiro(f, r) : f \in FalhasCliente, r \in Finais}

\* Cases of the pipeline's specification: a key with the service's script for it.
Caso(cep, rot) == [cep |-> cep, roteiro |-> rot]
CasosPipeline ==
    {Caso(Cep01001000, Roteiro(<<>>, RespOk)),
     Caso(Cep99999999, Roteiro(<<Resposta(503, CorpoVazio)>>, RespInexistente)),
     Caso(Cep123, Roteiro(<<>>, RespOk))}

-----------------------------------------------------------------------------
\* The fetch pipeline.
Indices == 1..Len(ceps)
FuturePendente(cep) == [estado |-> "pendente", valor |-> ResultadoBase(cep)]
\* Future.set_result / Future.set_exception
FutureDe(r) ==
    [estado |-> IF r.tipo = "retorno" THEN "resultado" ELSE "excecao", valor |-> r.valor]

InitGateParado ==
    /\ ultimo_acesso = 0
    /\ lock = 0
    /\ pcg = [w \in Workers |-> "fora"]
    /\ lido = [w \in Workers |-> 0]
    /\ acorda_g = [w \in Workers |-> 0]
    /\ permitidos = <<>>
    /\ n_acessos = [w \in Workers |-> 0]

InitBDParado ==
    /\ db_arquivo = FALSE
    /\ tabela_existe = FALSE
    /\ enderecos = <<>>
    /\ seq_id = 0
    /\ op = "nenhuma"
    /\ lote = <<>>
    /\ excecao = ""
    /\ antes = <<>>
    /\ repetido = FALSE
    /\ op_antes = "nenhuma"
    /\ seq_antes = 0

InitValidParado ==
    /\ df_sucesso = <<>>
    /\ df_normal = <<>>
    /\ df_final = <<>>
    /\ avisos = {}
    /\ etapa = "inicio"

InitPipelineModo(casos, local) ==
    /\ ceps = [i \in 1..Len(casos) |-> casos[i].cep]
    /\ is_local = local
    /\ roteiro = [i \in 1..Len(casos) |-> casos[i].roteiro]
    /\ fila = 1
    /\ futures = [i \in 1..Len(casos) |-> FuturePendente(casos[i].cep)]
    /\ pc = [w \in Workers |-> "ocioso"]
    /\ idx = [w \in Workers |-> 0]
    /\ tentativas = [w \in Workers |-> 0]
    /\ acorda = [w \in Workers |-> 0]
    /\ resultados_brutos = <<>>
    /\ fase = "consultando"
    /\ erros_csv = <<>>
    /\ n_chamadas = [i \in 1..Len(casos) |-> 0]
    /\ ultima_chamada = -1
    /\ menor_intervalo = -1

\* consulta_fn = consultar_cep
InitPipelineCom(casos) == InitPipelineModo(casos, FALSE)

\* executar_pipeline at the point where executor.map has submitted every key.
Init ==
    /\ \E casos \in SeqsDe(CasosPipeline, 0, MaxCeps) : InitPipelineCom(casos)
    /\ relogio = 0
    /\ InitGateParado
    /\ InitBDParado
    /\ InitValidParado

\* One key, any raw key and any service script.
InitCliente ==
    /\ \E cep \in ChavesCliente, rot \in RoteirosCliente :
            InitPipelineCom(<<Caso(cep, rot)>>)
    /\ relogio = 0
    /\ InitGateParado
    /\ InitBDParado
    /\ InitValidParado

\* A pool thread takes the next work item and enters consultar_cep: time.sleep(0.2).
Despachar(w) ==
    /\ ~is_local
    /\ fase = "consultando"
    /\ pc[w] = "ocioso"
    /\ fila <= Len(ceps)
    /\ pc' = [pc EXCEPT ![w] = "dormindo"]
    /\ idx' = [idx EXCEPT ![w] = fila]
    /\ fila' = fila + 1
    /\ tentativas' = [tentativas EXCEPT ![w] = 0]
    /\ acorda' = [acorda EXCEPT ![w] = relogio + AtrasoConsulta]
    /\ UNCHANGED <<ceps, is_local, roteiro, futures, resultados_brutos, fase, erros_csv,
                   n_chamadas, ultima_chamada, menor_intervalo, relogio, varsGate, varsBD, varsValid>>

\* The thread returns from consultar_cep: the future is resolved, the thread is free.
Concluir(w, r) ==
    /\ futures' = [futures EXCEPT ![idx[w]] = FutureDe(r)]
    /\ pc' = [pc EXCEPT ![w] = "ocioso"]
    /\ idx' = [idx EXCEPT ![w] = 0]
    /\ tentativas' = [tentativas EXCEPT ![w] = 0]

\* The sleep is over: the key is validated; an invalid key returns at once.
Validar(w) ==
    /\ pc[w] = "dormindo"
    /\ relogio >= acorda[w]
    /\ IF ValidarInputCep(ceps[idx[w]]).ok
       THEN /\ pc' = [pc EXCEPT ![w] = "requisitando"]
            /\ UNCHANGED <<futures, idx, tentativas>>
       ELSE Concluir(w, ConsultaInvalida(ceps[idx[w]]))
    /\ UNCHANGED <<ceps, is_local, roteiro, fila, acorda, resultados_brutos,
                   fase, erros_csv, n_chamadas, ultima_chamada, menor_intervalo,
                   relogio, varsGate, varsBD, varsValid>>

Min2(a, b) == IF a <= b THEN a ELSE b

RECURSIVE Pot2(_)
Pot2(n) == IF n <= 0 THEN 1 ELSE 2 * Pot2(n - 1)
\* The Retry strategy's sleep before the retry that follows the n-th consecutive
\* transient answer: backoff_factor * 2^(n-1), the waits the source's comment lists.
Backoff(n) == BackoffFactor * Pot2(n - 1)

\* Faulty variant of the Retry strategy: no limit on the retries.
RestamTentativasSemLimite(n) == TRUE

\* Retry(total=5): whether a retry is left after n retries
RestamTentativas(n) == n < RetryTotal

\* One outbound attempt of session.get.  A transient answer is retried, after the
\* backoff sleep, while the Retry strategy has retries left; otherwise
\* consultar_cep returns.
Requisitar(w) ==
    /\ pc[w] = "requisitando"
    /\ relogio >= acorda[w]
    /\ LET i == idx[w]
           r == RespostaDoServico(roteiro[i], tentativas[w] + 1)
       IN /\ n_chamadas' = [n_chamadas EXCEPT ![i] = @ + 1]
          /\ ultima_chamada' = relogio
          /\ menor_intervalo' =
                IF ultima_chamada < 0 THEN menor_intervalo
                ELSE IF menor_intervalo < 0 THEN relogio - ultima_chamada
                ELSE Min2(menor_intervalo, relogio - ultima_chamada)
          /\ IF Transitoria(r) /\ RestamTentativas(tentativas[w])
             THEN /\ tentativas' = [tentativas EXCEPT ![w] = @ + 1]
                  /\ acorda' = [acorda EXCEPT ![w] = relogio + Backoff(tentativas[w] + 1)]
                  /\ UNCHANGED <<futures, pc, idx>>
             ELSE /\ Concluir(w, ConcluirConsulta(ceps[i], r, Transitoria(r)))
                  /\ UNCHANGED acorda
    /\ UNCHANGED <<ceps, is_local, roteiro, fila, resultados_brutos, fase,
                   erros_csv, relogio, varsGate, varsBD, varsValid>>

\* Faulty variant of the collection: the futures are popped from the end of the
\* list without the list having been reversed first.
ProximoFutureInvertido == Len(ceps) - Len(resultados_brutos)

\* The future whose result the iterator of executor.map yields next.
ProximoFuture == Len(resultados_brutos) + 1

\* list(executor.map(...)): the main thread takes the next result in submission
\* order, waiting for it; an exception of the task is raised in the main thread.
Coletar ==
    /\ fase = "consultando"
    /\ Len(resultados_brutos) < Len(ceps)
    /\ ProximoFuture \in Indices
    /\ futures[ProximoFuture].estado # "pendente"
    /\ IF futures[ProximoFuture].estado = "excecao"
       THEN /\ fase' = "abortado"
            /\ UNCHANGED resultados_brutos
       ELSE /\ resultados_brutos' = Append(resultados_brutos, futures[ProximoFuture].valor)
            /\ UNCHANGED fase
    /\ UNCHANGED <<ceps, is_local, roteiro, fila, futures, pc, idx, tentativas, acorda,
                   erros_csv, n_chamadas, ultima_chamada, menor_intervalo,
                   relogio, varsGate, varsBD, varsValid>>

\* The iterator is exhausted: the with block of the executor ends.
FimColeta ==
    /\ fase = "consultando"
    /\ Len(resultados_brutos) = Len(ceps)
    /\ fase' = "coletado"
    /\ UNCHANGED <<ceps, is_local, roteiro, fila, futures, pc, idx, tentativas, acorda,
                   resultados_brutos, erros_csv, n_chamadas, ultima_chamada,
                   menor_intervalo, relogio, varsGate, varsBD, varsValid>>

\* The error branch of executar_pipeline: df_erro -> preparar_csv_erros.
ExportarErros ==
    /\ fase = "coletado"
    /\ fase' = "finalizado"
    /\ erros_csv' = PrepararCsvErros(resultados_brutos)
    /\ UNCHANGED <<ceps, is_local, roteiro, fila, futures, pc, idx, tentativas, acorda,
                   resultados_brutos, n_chamadas, ultima_chamada,
                   menor_intervalo, relogio, varsGate, varsBD, varsValid>>

\* A pool thread asleep: in time.sleep(0.2) or in the backoff before a retry.
Dormindo(w) == pc[w] \in {"dormindo", "requisitando", "mock"} /\ acorda[w] > relogio

\* Time passes while a thread sleeps: up to the earliest pending wake-up.
AvancarRelogio ==
    /\ \E w \in Workers :
        /\ Dormindo(w)
        /\ \A v \in Workers : Dormindo(v) => acorda[w] <= acorda[v]
        /\ relogio' = acorda[w]
    /\ UNCHANGED <<varsPipeline, varsGate, varsBD, varsValid>>

Next ==
    \/ \E w \in Workers : Despachar(w)
    \/ \E w \in Workers : Validar(w)
    \/ \E w \in Workers : Requisitar(w)
    \/ Coletar
    \/ FimColeta
    \/ ExportarErros
    \/ AvancarRelogio

Spec == Init /\ [][Next]_vars
SpecCliente == InitCliente /\ [][Next]_vars

\* consultar_cep_mock: the delays of its sleep, random.uniform(0.2, 1.5), at the
\* ends and in the middle of the range.
AtrasosMock == {20, 85, 150}
DadosMock == Dados(<<>>, <<"Rua Ficticia">>, UfSP)
\* consultar_cep_mock: what it returns when random.random() <= 0.8 and otherwise
RetornoMock(cep, sorteado) ==
    IF sorteado
    THEN Retorno([ResultadoBase(cep) EXCEPT !.status = "sucesso", !.dados = DadosMock])
    ELSE Retorno([ResultadoBase(cep) EXCEPT !.mensagem = MsgInexistente])

\* A pool thread takes the next work item and enters consultar_cep_mock: the
\* sleep of a random length.
DespacharMock(w) ==
    /\ is_local
    /\ fase = "consultando"
    /\ pc[w] = "ocioso"
    /\ fila <= Len(ceps)
    /\ pc' = [pc EXCEPT ![w] = "mock"]
    /\ idx' = [idx EXCEPT ![w] = fila]
    /\ fila' = fila + 1
    /\ tentativas' = [tentativas EXCEPT ![w] = 0]
    /\ \E d \in AtrasosMock : acorda' = [acorda EXCEPT ![w] = relogio + d]
    /\ UNCHANGED <<ceps, is_local, roteiro, futures, resultados_brutos, fase, erros_csv,
                   n_chamadas, ultima_chamada, menor_intervalo, relogio, varsGate, varsBD, varsValid>>

\* The sleep is over: consultar_cep_mock draws its answer and returns.
ConsultarCepMock(w) ==
    /\ pc[w] = "mock"
    /\ relogio >= acorda[w]
    /\ \E sorteado \in BOOLEAN : Concluir(w, RetornoMock(ceps[idx[w]], sorteado))
    /\ UNCHANGED <<ceps, is_local, roteiro, fila, acorda, resultados_brutos,
                   fase, erros_csv, n_chamadas, ultima_chamada, menor_intervalo,
                   relogio, varsGate, varsBD, varsValid>>

\* One key given to the lookup function the run selected: any raw key; for
\* consultar_cep any service script (consultar_cep_mock calls no service).
InitConsulta ==
    /\ \/ \E cep \in ChavesCliente, rot \in RoteirosCliente :
            InitPipelineModo(<<Caso(cep, rot)>>, FALSE)
       \/ \E cep \in ChavesCliente :
            InitPipelineModo(<<Caso(cep, Roteiro(<<>>, RespOk))>>, TRUE)
    /\ relogio = 0
    /\ InitGateParado
    /\ InitBDParado
    /\ InitValidParado

NextConsulta ==
    \/ Next
    \/ \E w \in Workers : DespacharMock(w)
    \/ \E w \in Workers : ConsultarCepMock(w)

SpecConsulta == InitConsulta /\ [][NextConsulta]_vars

\* Cases of the batch specification: a key answered at once, a key whose every
\* attempt is answered 503, a key refused with 404, a malformed key.
CasosLote ==
    {Caso(Cep01001000, Roteiro(<<>>, RespOk)),
     Caso(Cep99999999, Roteiro([k \in 1..(RetryTotal + 1) |-> Resposta(503, CorpoVazio)], RespOk)),
     Caso(Cep01001Traco000, Roteiro(<<>>, Resposta(404, CorpoVazio))),
     Caso(Cep123, Roteiro(<<>>, RespOk))}

InitLote ==
    /\ \E casos \in SeqsDe(CasosLote, 0, MaxLoteCeps) : InitPipelineCom(casos)
    /\ relogio = 0
    /\ InitGateParado
    /\ InitBDParado
    /\ InitValidParado

\* The batch under fair scheduling: a pool thread that can run does run, a sleep
\* ends, and the main thread goes on when the result it waits for is there.
SpecLote == InitLote /\ [][Next]_vars /\ WF_vars(Next)

-----------------------------------------------------------------------------
\* Properties of the fetch pipeline and of the lookup client.

Resolvido(i) == futures[i].estado # "pendente"
\* The key cleaned the way _validar_input_cep cleans it.
Limpo(cep) == Strip(Replace(Replace(cep.txt, "-"), "."))
\* An 8-digit numeric postal code: exactly eight of the digits 0..9.
OitoDigitos(cep) ==
    /\ cep.tipo = "str"
    /\ Len(Limpo(cep)) = 8
    /\ \A k \in 1..Len(Limpo(cep)) : Limpo(cep)[k] \in DigitosAscii
\* The answer on which session.get ends for key i: the first answer that is not
\* transient, or the answer to the last attempt the Retry strategy allows.
NumTentativas(i) == Min2(Len(roteiro[i].falhas) + 1, RetryTotal + 1)
UltimaResposta(i) == RespostaDoServico(roteiro[i], NumTentativas(i))
\* The rows of the error table for key i
ErrosDe(i) == {k \in 1..Len(erros_csv) : erros_csv[k].cep = ceps[i]}

\* C1: the list built from executor.map never holds more outcomes than there are
\* keys, its i-th outcome carries the i-th input key in whatever order the pool
\* threads finish, and once the fetch has returned it holds one outcome per key.
C1_OrdemPreservada ==
    /\ Len(resultados_brutos) <= Len(ceps)
    /\ \A i \in 1..Len(resultados_brutos) : resultados_brutos[i].cep = ceps[i]
    /\ fase \in {"coletado", "finalizado"} => Len(resultados_brutos) = Len(ceps)

\* C1 witness: three keys, the first repeated and the second malformed; the pool
\* finished the third key while the second is still pending, and the first
\* outcome has been collected.
C1_Witness ==
    /\ Len(ceps) = 3
    /\ ceps[1] = ceps[3]
    /\ ~ValidarInputCep(ceps[2]).ok
    /\ Len(resultados_brutos) = 1
    /\ futures[2].estado = "pendente"
    /\ futures[3].estado = "resultado"

\* C3: the starts of any two outbound calls, first attempts and retries alike and
\* across all pool threads, are at least the minimum interval of the rate gate
\* apart.
C3_ChamadasEspacadas == menor_intervalo < 0 \/ menor_intervalo >= IntervaloMinimo

\* C4: a key that is not exactly 8 digits after cleaning (or is no string) causes
\* no outbound call, and its outcome is a failure whose error row is classified
\* CEP_INVALIDO.
C4_ChaveMalformadaSemChamada ==
    \A i \in Indices :
        ~OitoDigitos(ceps[i]) =>
            /\ n_chamadas[i] = 0
            /\ Resolvido(i) =>
                /\ futures[i].estado = "resultado"
                /\ futures[i].valor.status = "erro"
                /\ CategorizarErro(futures[i].valor.mensagem) = "CEP_INVALIDO"

\* C8: for a well-formed key that the service answers with status 200 and the
\* not-found marker, the outcome is a failure with the not-found message and its
\* error row has category CEP_INEXISTENTE.
C8_InexistenteCategorizado ==
    \A i \in Indices :
        (/\ fase = "finalizado"
         /\ ValidarInputCep(ceps[i]).ok
         /\ UltimaResposta(i) = RespInexistente) =>
            /\ futures[i].valor.status = "erro"
            /\ Contem(futures[i].valor.mensagem, "inexistente")
            /\ ErrosDe(i) # {}
            /\ \A k \in ErrosDe(i) : erros_csv[k].tipo_erro = "CEP_INEXISTENTE"

\* Every attempt for key i is answered with a status of the forcelist.
SoStatusTransitorios(i) ==
    /\ Len(roteiro[i].falhas) = RetryTotal + 1
    /\ \A k \in 1..(RetryTotal + 1) :
            /\ roteiro[i].falhas[k].tipo = "resposta"
            /\ roteiro[i].falhas[k].status \in StatusForcelist

\* C9: when every attempt for a well-formed key is answered with a retryable
\* status, the client makes 1 + 5 attempts and returns a failure whose message
\* names the status of the last answer.
C9_FalhaComUltimoStatus ==
    \A i \in Indices :
        (/\ Resolvido(i)
         /\ ValidarInputCep(ceps[i]).ok
         /\ SoStatusTransitorios(i)) =>
            /\ futures[i].estado = "resultado"
            /\ futures[i].valor.status = "erro"
            /\ n_chamadas[i] = RetryTotal + 1
            /\ Contem(futures[i].valor.mensagem,
                      ToString(roteiro[i].falhas[RetryTotal + 1].status))

\* C9 witness: retries exhausted on statuses, the last one unlike the earlier ones.
C9_Witness ==
    /\ Len(ceps) = 1
    /\ Resolvido(1)
    /\ ValidarInputCep(ceps[1]).ok
    /\ SoStatusTransitorios(1)
    /\ roteiro[1].falhas[RetryTotal + 1].status # roteiro[1].falhas[RetryTotal].status

\* The consultation of key i ended in an exception inside the try block.
TerminouEmExcecao(i) ==
    LET r == UltimaResposta(i)
    IN \/ Transitoria(r)
       \/ r.tipo = "excecao"
       \/ r.tipo = "resposta" /\ r.status = 200 /\ r.corpo.forma \in {"nao_json", "nao_objeto"}
\* The consultation of key i ended in a transport exception.
TerminouEmErroDeTransporte(i) == UltimaResposta(i).tipo \in {"excecao", "erro_transporte"}

\* C10: consultar_cep never raises: no future holds an exception and the main
\* thread is never aborted; every outcome is a success or a failure with a
\* non-empty message; an exception in the try block yields a message that starts
\* with "Erro de conexao", classified ERRO_CONEXAO for a transport exception.
C10_ConsultaTotal ==
    /\ fase # "abortado"
    /\ \A i \in Indices :
        /\ futures[i].estado # "excecao"
        /\ Resolvido(i) =>
            /\ futures[i].valor.cep = ceps[i]
            /\ futures[i].valor.status \in {"sucesso", "erro"}
            /\ futures[i].valor.status = "erro" => futures[i].valor.mensagem # <<>>
            /\ (ValidarInputCep(ceps[i]).ok /\ TerminouEmExcecao(i)) =>
                    /\ futures[i].valor.status = "erro"
                    /\ Len(futures[i].valor.mensagem) >= 3
                    /\ SubSeq(futures[i].valor.mensagem, 1, 3) = <<"Erro", "de", "conexao">>
            /\ (ValidarInputCep(ceps[i]).ok /\ TerminouEmErroDeTransporte(i)) =>
                    CategorizarErro(futures[i].valor.mensagem) = "ERRO_CONEXAO"

\* C10 witness: a well-formed key whose call raised an exception that is not
\* retried; the run went on to its end.
C10_Witness ==
    /\ fase = "finalizado"
    /\ Len(ceps) = 1
    /\ ValidarInputCep(ceps[1]).ok
    /\ UltimaResposta(1) = ExcecaoFinal
    /\ futures[1].estado = "resultado"

\* The fetch has returned: the main thread holds one outcome per key.
LoteRetornou ==
    /\ fase \in {"coletado", "finalizado"}
    /\ Len(resultados_brutos) = Len(ceps)
    /\ \A i \in Indices : resultados_brutos[i].cep = ceps[i]

\* C11: whatever the keys and the service's answers, no key costs more than
\* 1 + 5 outbound attempts, no key's failure aborts the collection or leaves
\* an exception in a future, and the fetch eventually returns with one outcome
\* for every key.
C11_LoteTermina ==
    /\ [](/\ \A i \in Indices : n_chamadas[i] <= RetryTotal + 1
          /\ fase # "abortado"
          /\ \A i \in Indices : futures[i].estado # "excecao")
    /\ <>LoteRetornou

\* C11 witness: the first key used up every retry and failed, and the second
\* key, taken by the other pool thread meanwhile, has its successful outcome.
C11_Witness ==
    /\ LoteRetornou
    /\ Len(ceps) = 2
    /\ n_chamadas[1] = RetryTotal + 1
    /\ resultados_brutos[1].status = "erro"
    /\ n_chamadas[2] = 1
    /\ resultados_brutos[2].status = "sucesso"

\* C15: every outcome a lookup function returns, consultar_cep on any of its
\* paths and consultar_cep_mock alike, is a success exactly when its dados is a
\* dict and its message is empty, and a failure exactly when its dados is None
\* and its message is not empty.
C15_ResultadoBemFormado ==
    \A i \in Indices :
        Resolvido(i) =>
            LET v == futures[i].valor
            IN /\ futures[i].estado = "resultado"
               /\ v.cep = ceps[i]
               /\ v.status \in {"sucesso", "erro"}
               /\ v.status = "sucesso" <=> (v.dados.tipo = "dict" /\ v.mensagem = <<>>)
               /\ v.status = "erro" <=> (v.dados = SemDados /\ v.mensagem # <<>>)

\* C15 witness: the real client got status 200 with a body that is JSON but no
\* object, and returned a failure.
C15_Witness ==
    /\ ~is_local
    /\ Len(ceps) = 1
    /\ Resolvido(1)
    /\ ValidarInputCep(ceps[1]).ok
    /\ UltimaResposta(1) = Resposta(200, CorpoNaoObjeto)
    /\ futures[1].valor.status = "erro"
    /\ futures[1].valor.dados = SemDados

-----------------------------------------------------------------------------
\* The rate gate (rate_limit.py).  Callers are the pool threads.

\* Faulty variant of the lock: it excludes nobody.
LockSempreLivre == TRUE

\* with _lock: the lock can be taken
LockLivre == lock = 0

\* tempo_espera for a caller that reads the clock at instant agora (0: no sleep)
TempoEspera(agora) ==
    LET tempo_desde_ultimo == agora - ultimo_acesso
    IN IF tempo_desde_ultimo < IntervaloMinimo
       THEN IntervaloMinimo - tempo_desde_ultimo
       ELSE 0

\* A thread calls aguardar_permissao_api and blocks on the lock.
GateChamar(w) ==
    /\ pcg[w] = "fora"
    /\ n_acessos[w] < MaxAcessos
    /\ pcg' = [pcg EXCEPT ![w] = "aguardando"]
    /\ UNCHANGED <<varsPipeline, varsBD, varsValid, relogio, ultimo_acesso, lock, lido, acorda_g,
                   permitidos, n_acessos>>

\* The thread takes the lock, reads the clock and _ultimo_acesso, and starts the
\* sleep for the remainder of the interval.
GateEntrar(w) ==
    /\ pcg[w] = "aguardando"
    /\ LockLivre
    /\ lock' = w
    /\ lido' = [lido EXCEPT ![w] = ultimo_acesso]
    /\ acorda_g' = [acorda_g EXCEPT ![w] = relogio + TempoEspera(relogio)]
    /\ pcg' = [pcg EXCEPT ![w] = "dentro"]
    /\ UNCHANGED <<varsPipeline, varsBD, varsValid, relogio, ultimo_acesso, permitidos, n_acessos>>

\* The sleep is over (time.sleep sleeps at least the time asked): the thread
\* records the clock in _ultimo_acesso and releases the lock.
GateSair(w) ==
    /\ pcg[w] = "dentro"
    /\ relogio >= acorda_g[w]
    /\ ultimo_acesso' = relogio
    /\ permitidos' = Append(permitidos, [quem |-> w, lido |-> lido[w], instante |-> relogio])
    /\ lock' = 0
    /\ pcg' = [pcg EXCEPT ![w] = "fora"]
    /\ n_acessos' = [n_acessos EXCEPT ![w] = @ + 1]
    /\ UNCHANGED <<varsPipeline, varsBD, varsValid, relogio, lido, acorda_g>>

\* The monotonic clock advances.
AvancarRelogioGate ==
    /\ relogio < MaxTempo
    /\ relogio' = relogio + PassoRelogio
    /\ UNCHANGED <<varsPipeline, varsBD, varsValid, varsGate>>

\* The process may call the gate for the first time at any instant of its clock.
InitGate ==
    /\ InitPipelineCom(<<>>)
    /\ relogio \in {k * PassoRelogio : k \in 0..4}
    /\ InitGateParado
    /\ InitBDParado
    /\ InitValidParado

NextGate ==
    \/ \E w \in Workers : GateChamar(w)
    \/ \E w \in Workers : GateEntrar(w)
    \/ \E w \in Workers : GateSair(w)
    \/ AvancarRelogioGate

SpecGate == InitGate /\ [][NextGate]_vars

\* C2: the read-wait-update sequence of aguardar_permissao_api is one critical
\* section: at most one caller is inside it, the caller inside holds the lock and
\* read the current _ultimo_acesso; no two permitted calls read the same
\* _ultimo_acesso, and the instants of any two permitted calls are at least
\* IntervaloMinimo apart.
C2_GateSerializa ==
    /\ \A w, v \in Workers : (pcg[w] = "dentro" /\ pcg[v] = "dentro") => w = v
    /\ \A w \in Workers : pcg[w] = "dentro" => (lock = w /\ lido[w] = ultimo_acesso)
    /\ \A j, k \in 1..Len(permitidos) :
        j < k =>
            /\ permitidos[j].lido # permitidos[k].lido
            /\ permitidos[k].instante - permitidos[j].instante >= IntervaloMinimo

\* C2 witness: calls of both callers have been permitted, one of them after a
\* sleep of the full remainder, and now one caller sleeps inside the critical
\* section while the other is blocked on the lock.
C2_Witness ==
    /\ Len(permitidos) >= 2
    /\ \E j, k \in 1..Len(permitidos) : permitidos[j].quem # permitidos[k].quem
    /\ \E w, v \in Workers :
        /\ pcg[w] = "dentro" /\ acorda_g[w] > relogio
        /\ pcg[v] = "aguardando"

-----------------------------------------------------------------------------
\* Storage (database.py).  A record of a validated DataFrame has the key and two
\* of the address columns; a row of the table adds id_endereco (the column
\* data_registro is left out).
Registro(c, l, u) == [cep |-> c, logradouro |-> l, uf |-> u]
Linha(id, r) ==
    [id_endereco |-> id, cep |-> r.cep, logradouro |-> r.logradouro, uf |-> r.uf]

ChavesBD == {Cep01001000, Cep01001Traco000, Cep99999999}
RegistrosBD ==
    {Registro(c, PracaDaSe, UfSP) : c \in ChavesBD}
        \cup {Registro(Cep01001000, RuaDireita, UfSP)}
LotesBD == SeqsDe(RegistrosBD, 0, MaxLote)

ChavesUnicas(df) == \A i, j \in 1..Len(df) : df[i].cep = df[j].cep => i = j
CepsDe(tab) == {tab[k].cep : k \in 1..Len(tab)}

\* Faulty variant of the filter: every record counts as new.
DfNovosSemFiltro(df, tab) == df

\* df_novos = df[~df['cep'].isin(ceps_existentes['cep'])]
DfNovos(df, tab) == SelectSeq(df, LAMBDA r : r.cep \notin CepsDe(tab))

\* Faulty variant of the write: if_exists="replace", which recreates the table
\* from the DataFrame.
SubstituirLinhas(tab, novos, seq) == [k \in 1..Len(novos) |-> Linha(k, novos[k])]

\* df_novos.to_sql(name="enderecos", if_exists="append"): the rows follow the
\* stored ones, with the next values of the AUTOINCREMENT key.
AcrescentarLinhas(tab, novos, seq) ==
    tab \o [k \in 1..Len(novos) |-> Linha(seq + k, novos[k])]

\* Faulty variant of the schema: cep TEXT NOT NULL, without UNIQUE.
ViolaUniqueSemRestricao(tab, novos) == FALSE

\* Whether appending novos breaks the UNIQUE constraint on cep.
ViolaUnique(tab, novos) ==
    \/ ~ChavesUnicas(novos)
    \/ \E k \in 1..Len(novos) : novos[k].cep \in CepsDe(tab)

\* Faulty variant of criar_banco: the table is dropped whatever the flag.
TabelaAposCriarSempreVazia(reset, existe, tab) == <<>>

\* The table after DROP TABLE IF EXISTS (when reset) and CREATE TABLE IF NOT EXISTS.
TabelaAposCriar(reset, existe, tab) == IF reset \/ ~existe THEN <<>> ELSE tab
SeqAposCriar(reset, existe, seq) == IF reset \/ ~existe THEN 0 ELSE seq

\* Faulty variant of inserir_dados: no check of the file and no read of the
\* stored keys, so that to_sql creates the missing table.
ExcecaoInserirSemVerificacao(arquivo, existe, tab, df) ==
    IF Len(DfNovos(df, tab)) > 0 /\ ViolaUnique(tab, DfNovos(df, tab))
    THEN "IntegrityError"
    ELSE ""

\* The exception inserir_dados raises on the given database ("": none).
ExcecaoInserir(arquivo, existe, tab, df) ==
    IF ~arquivo THEN "FileNotFoundError"
    ELSE IF ~existe THEN "DatabaseError"
    ELSE IF Len(DfNovos(df, tab)) > 0 /\ ViolaUnique(tab, DfNovos(df, tab))
         THEN "IntegrityError"
    ELSE ""

\* The table after inserir_dados: unchanged when it raises (the transaction is
\* rolled back) or when no key is new.
TabelaAposInserir(arquivo, existe, tab, seq, df) ==
    IF ExcecaoInserir(arquivo, existe, tab, df) # "" \/ Len(DfNovos(df, tab)) = 0
    THEN tab
    ELSE AcrescentarLinhas(tab, DfNovos(df, tab), seq)

SeqAposInserir(arquivo, existe, tab, seq, df) ==
    IF ExcecaoInserir(arquivo, existe, tab, df) # "" THEN seq
    ELSE seq + Len(DfNovos(df, tab))

\* criar_banco(reset)
CriarBanco(reset) ==
    /\ db_arquivo' = TRUE
    /\ tabela_existe' = TRUE
    /\ enderecos' = TabelaAposCriar(reset, tabela_existe, enderecos)
    /\ seq_id' = SeqAposCriar(reset, tabela_existe, seq_id)
    /\ op' = IF reset THEN "criar_banco_reset" ELSE "criar_banco"
    /\ lote' = <<>>
    /\ excecao' = ""
    /\ antes' = enderecos
    /\ repetido' = FALSE
    /\ op_antes' = op
    /\ seq_antes' = seq_id
    /\ UNCHANGED <<varsPipeline, relogio, varsGate, varsValid>>

\* inserir_dados(df)
InserirDados(df) ==
    /\ enderecos' = TabelaAposInserir(db_arquivo, tabela_existe, enderecos, seq_id, df)
    /\ seq_id' = SeqAposInserir(db_arquivo, tabela_existe, enderecos, seq_id, df)
    /\ op' = "inserir_dados"
    /\ lote' = df
    /\ excecao' = ExcecaoInserir(db_arquivo, tabela_existe, enderecos, df)
    /\ antes' = enderecos
    /\ repetido' = (op = "inserir_dados" /\ lote = df /\ excecao = "")
    /\ op_antes' = op
    /\ seq_antes' = seq_id
    /\ UNCHANGED <<db_arquivo, tabela_existe>>
    /\ UNCHANGED <<varsPipeline, relogio, varsGate, varsValid>>

\* What one run of executar_pipeline does to the storage: criar_banco(reset=True)
\* at its start and, when the run has successes, inserir_dados(df_final), where
\* df_final comes from the validator and so has unique keys.
ExecutarPipelineCarga(df) ==
    /\ ChavesUnicas(df)
    /\ db_arquivo' = TRUE
    /\ tabela_existe' = TRUE
    /\ enderecos' =
            IF Len(df) = 0 THEN <<>>
            ELSE TabelaAposInserir(TRUE, TRUE, <<>>, 0, df)
    /\ seq_id' = IF Len(df) = 0 THEN 0 ELSE SeqAposInserir(TRUE, TRUE, <<>>, 0, df)
    /\ op' = "executar_pipeline"
    /\ lote' = df
    /\ excecao' = IF Len(df) = 0 THEN "" ELSE ExcecaoInserir(TRUE, TRUE, <<>>, df)
    /\ antes' = enderecos
    /\ repetido' = FALSE
    /\ op_antes' = op
    /\ seq_antes' = seq_id
    /\ UNCHANGED <<varsPipeline, relogio, varsGate, varsValid>>

\* No criar_banco yet: there is no table; the file is absent, or it is there
\* without the table (an empty file at the path).
InitBD ==
    /\ InitPipelineCom(<<>>)
    /\ relogio = 0
    /\ InitGateParado
    /\ db_arquivo \in BOOLEAN
    /\ tabela_existe = FALSE
    /\ enderecos = <<>>
    /\ seq_id = 0
    /\ op = "nenhuma"
    /\ lote = <<>>
    /\ excecao = ""
    /\ antes = <<>>
    /\ repetido = FALSE
    /\ op_antes = "nenhuma"
    /\ seq_antes = 0
    /\ InitValidParado

NextBD ==
    \/ \E reset \in BOOLEAN : CriarBanco(reset)
    \/ \E df \in LotesBD : InserirDados(df)
    \/ \E df \in LotesBD : ExecutarPipelineCarga(df)

SpecBD == InitBD /\ [][NextBD]_vars

\* Every row of tab is a row of tab2, unchanged.
Contida(tab, tab2) == \A k \in 1..Len(tab) : \E j \in 1..Len(tab2) : tab2[j] = tab[k]

\* C5: an insert that repeats the insert just before it, with a set of unique
\* keys, raises nothing and leaves the table exactly as the first call left it.
C5_InserirIdempotente ==
    (repetido /\ ChavesUnicas(lote)) => (excecao = "" /\ enderecos = antes)

\* C5 witness: the repeated set has two records, one of which the first call
\* appended to rows stored earlier.
C5_Witness ==
    /\ repetido
    /\ ChavesUnicas(lote)
    /\ Len(lote) = 2
    /\ \E k \in 1..Len(enderecos) : \A i \in 1..Len(lote) : enderecos[k].cep # lote[i].cep
    /\ \E k \in 1..Len(enderecos) :
        enderecos[k].cep = lote[2].cep /\ enderecos[k].logradouro = lote[2].logradouro

\* C6 as claimed: every row stored when a pipeline run starts is still stored,
\* unchanged, when the run ends.
C6_LinhasPersistemEntreExecucoes ==
    op = "executar_pipeline" => Contida(antes, enderecos)

\* C6 amended: rows persist across insert calls, not across pipeline runs.  A run
\* ends with exactly the rows of its own validated set, numbered from 1;
\* inserir_dados keeps every stored row unchanged and in place, and appends rows
\* only for keys of the DataFrame that were not stored.
C6_InserirSoAcrescenta ==
    /\ op = "executar_pipeline" =>
            /\ excecao = ""
            /\ enderecos = [k \in 1..Len(lote) |-> Linha(k, lote[k])]
    /\ op = "inserir_dados" =>
            /\ Len(enderecos) >= Len(antes)
            /\ SubSeq(enderecos, 1, Len(antes)) = antes
            /\ \A k \in (Len(antes) + 1)..Len(enderecos) :
                    /\ enderecos[k].cep \notin CepsDe(antes)
                    /\ \E i \in 1..Len(lote) :
                            enderecos[k] = Linha(enderecos[k].id_endereco, lote[i])

\* C6 witness: an insert into a table that held a row, with a DataFrame that has
\* a stored key and a new one; the new one was appended.
C6_Witness ==
    /\ op = "inserir_dados"
    /\ Len(antes) >= 1
    /\ Len(enderecos) = Len(antes) + 1
    /\ \E i \in 1..Len(lote) : lote[i].cep \in CepsDe(antes)

\* C13: after criar_banco(reset=False) the table exists and holds exactly the
\* rows it held, with the id sequence where it was; after criar_banco(reset=True)
\* the table exists and is empty, its id sequence back at 0; a call that repeats
\* the same form of the call just before it changes nothing.
C13_CriarBancoIdempotente ==
    /\ op = "criar_banco" =>
            /\ db_arquivo /\ tabela_existe
            /\ enderecos = antes
            /\ seq_id = seq_antes
    /\ op = "criar_banco_reset" =>
            /\ db_arquivo /\ tabela_existe
            /\ enderecos = <<>>
            /\ seq_id = 0
    /\ (op \in {"criar_banco", "criar_banco_reset"} /\ op_antes = op) =>
            /\ enderecos = antes
            /\ seq_id = seq_antes

\* C13 witness: criar_banco(reset=False) called twice in a row on a table that
\* holds two rows.
C13_Witness ==
    /\ op = "criar_banco"
    /\ op_antes = "criar_banco"
    /\ Len(enderecos) = 2
    /\ seq_id = 2

\* C14: inserir_dados called when no criar_banco has come before it raises (the
\* file is missing, or the table is) and the exception reaches the caller; no
\* row is stored and no table is created.
C14_InserirSemBancoFalha ==
    (op = "inserir_dados" /\ ~tabela_existe) =>
        /\ excecao \in {"FileNotFoundError", "DatabaseError"}
        /\ ~db_arquivo => excecao = "FileNotFoundError"
        /\ enderecos = <<>>
        /\ seq_id = 0

\* C14 witness: the first operation ever is an insert of two records with
\* distinct keys, and the file does not exist.
C14_Witness ==
    /\ op = "inserir_dados"
    /\ op_antes = "nenhuma"
    /\ ~db_arquivo
    /\ Len(lote) = 2
    /\ ChavesUnicas(lote)
    /\ excecao = "FileNotFoundError"

\* C16: the table never holds two rows with the same cep, nor two rows with the
\* same id_endereco, whatever calls of criar_banco and inserir_dados came before.
C16_CepUnicoNaTabela ==
    \A i, j \in 1..Len(enderecos) :
        (enderecos[i].cep = enderecos[j].cep \/ enderecos[i].id_endereco = enderecos[j].id_endereco)
            => i = j

\* C16 witness: an insert whose DataFrame has the same new key twice, next to a
\* table that already holds a row; the insert was refused as a whole.
C16_Witness ==
    /\ op = "inserir_dados"
    /\ Len(lote) = 2
    /\ lote[1].cep = lote[2].cep
    /\ lote[1].cep \notin CepsDe(antes)
    /\ Len(antes) = 1
    /\ excecao = "IntegrityError"
    /\ enderecos = antes

-----------------------------------------------------------------------------
\* The validator (data_transformation.py).

\* pd.NA
NA == <<"<NA>">>
\* the regular expression ^\s*$
EmBranco(v) == \A k \in 1..Len(v) : v[k] \in Brancos

\* normalizar_resultados: the payload is spread into columns, its own cep column
\* is dropped, and the key of the outcome is kept as the cep column.
NormalizarResultados(df) ==
    [i \in 1..Len(df) |-> Registro(df[i].cep, df[i].dados.logradouro, df[i].dados.uf)]

Aviso(tipo, cep, n) == [tipo |-> tipo, cep |-> cep, n |-> n]

\* dados_unicos of the group of key c: the distinct rows of its non-key columns
DadosUnicos(df, c) ==
    {<<df[i].logradouro, df[i].uf>> : i \in {k \in 1..Len(df) : df[k].cep = c}}

\* The keys that df.duplicated(subset=['cep'], keep=False) marks.
CepsDuplicados(df) ==
    {c \in CepsDe(df) : Cardinality({k \in 1..Len(df) : df[k].cep = c}) > 1}

\* Faulty variant of the choice of the row to keep: keep='last'.
ManterUltima(df, i) == \A j \in (i + 1)..Len(df) : df[j].cep # df[i].cep

\* drop_duplicates(subset=['cep'], keep='first') keeps row i
ManterPrimeira(df, i) == \A j \in 1..(i - 1) : df[j].cep # df[i].cep

RECURSIVE SemDuplicatasDesde(_, _)
SemDuplicatasDesde(df, i) ==
    IF i > Len(df) THEN <<>>
    ELSE (IF ManterPrimeira(df, i) THEN <<df[i]>> ELSE <<>>) \o SemDuplicatasDesde(df, i + 1)

\* _validar_ceps_duplicados: the DataFrame returned
SemDuplicatas(df) == SemDuplicatasDesde(df, 1)

\* _validar_ceps_duplicados: the warnings emitted
AvisosDuplicados(df) ==
    {Aviso("inconsistente", c, 0) : c \in {d \in CepsDuplicados(df) : Cardinality(DadosUnicos(df, d)) > 1}}
        \cup (IF Len(df) - Len(SemDuplicatas(df)) > 0
              THEN {Aviso("duplicatas", NaN, Len(df) - Len(SemDuplicatas(df)))}
              ELSE {})

\* df.replace(r'^\s*$', pd.NA, regex=True) on one row (a key that passed
\* _validar_input_cep is never blank)
SubstituirEmBranco(r) ==
    [r EXCEPT !.logradouro = IF EmBranco(@) THEN NA ELSE @,
              !.uf = IF EmBranco(@) THEN NA ELSE @]

\* validar_dados_transformados: the DataFrame returned
DadosValidados(df) ==
    [i \in 1..Len(SemDuplicatas(df)) |-> SubstituirEmBranco(SemDuplicatas(df)[i])]

\* validar_dados_transformados: the warnings of its own checks
AvisosCampos(df) ==
    LET v == DadosValidados(df)
        logradouro_nulo == Cardinality({i \in 1..Len(v) : v[i].logradouro = NA})
        uf_invalido == Cardinality({i \in 1..Len(v) : v[i].uf # NA /\ Len(v[i].uf) # 2})
    IN (IF logradouro_nulo > 0 THEN {Aviso("logradouro_nulo", NaN, logradouro_nulo)} ELSE {})
        \cup (IF uf_invalido > 0 THEN {Aviso("uf_invalido", NaN, uf_invalido)} ELSE {})

\* Successful outcomes given to the validator.
Sucesso(cep, dados) == [cep |-> cep, status |-> "sucesso", dados |-> dados, mensagem |-> <<>>]
SucessosValid ==
    {Sucesso(c, Dados(CepFormatadoViaCep, l, u)) :
        c \in {Cep01001000, Cep01001Traco000},
        l \in {PracaDaSe, RuaDireita, <<>>, <<" ">>},
        u \in {UfSP, <<"S">>}}

InitValid ==
    /\ InitPipelineCom(<<>>)
    /\ relogio = 0
    /\ InitGateParado
    /\ InitBDParado
    /\ df_sucesso \in SeqsDe(SucessosValid, 1, MaxRegistros)
    /\ df_normal = <<>>
    /\ df_final = <<>>
    /\ avisos = {}
    /\ etapa = "inicio"

\* df_final = normalizar_resultados(df_sucesso)
Normalizar ==
    /\ etapa = "inicio"
    /\ Len(df_sucesso) > 0
    /\ df_normal' = NormalizarResultados(df_sucesso)
    /\ etapa' = "normalizado"
    /\ UNCHANGED <<df_sucesso, df_final, avisos>>
    /\ UNCHANGED <<varsPipeline, relogio, varsGate, varsBD>>

\* df_final = validar_dados_transformados(df_final)
ValidarDadosTransformados ==
    /\ etapa = "normalizado"
    /\ df_final' = DadosValidados(df_normal)
    /\ avisos' = AvisosDuplicados(df_normal) \cup AvisosCampos(df_normal)
    /\ etapa' = "validado"
    /\ UNCHANGED <<df_sucesso, df_normal>>
    /\ UNCHANGED <<varsPipeline, relogio, varsGate, varsBD>>

NextValid == Normalizar \/ ValidarDadosTransformados

SpecValid == InitValid /\ [][NextValid]_vars

\* The first row of df with key c
Primeira(df, c) == df[CHOOSE i \in 1..Len(df) : df[i].cep = c /\ \A j \in 1..(i - 1) : df[j].cep # c]
\* The keys with two rows that differ in some column other than the key
CepsEmConflito(df) ==
    {c \in CepsDe(df) :
        \E i, j \in 1..Len(df) :
            /\ df[i].cep = c /\ df[j].cep = c
            /\ (df[i].logradouro # df[j].logradouro \/ df[i].uf # df[j].uf)}

\* C7: the validator keeps exactly one record per key of its input, the first one
\* in input order, with that record's own field values (blank ones replaced by
\* NA, none taken from a later duplicate), and warns of inconsistent data exactly
\* for the keys whose records differ in a column other than the key.
C7_PrimeiroPorChave ==
    etapa = "validado" =>
        /\ CepsDe(df_final) = CepsDe(df_normal)
        /\ \A c \in CepsDe(df_normal) :
            /\ Cardinality({i \in 1..Len(df_final) : df_final[i].cep = c}) = 1
            /\ \A i \in 1..Len(df_final) :
                df_final[i].cep = c => df_final[i] = SubstituirEmBranco(Primeira(df_normal, c))
        /\ {a.cep : a \in {x \in avisos : x.tipo = "inconsistente"}} = CepsEmConflito(df_normal)

\* C7 witness: two records of one key with different streets and a third record of
\* another key; the first street was kept and the key was warned about.
C7_Witness ==
    /\ etapa = "validado"
    /\ Len(df_normal) = 3
    /\ df_normal[1].cep = df_normal[3].cep
    /\ df_normal[1].cep # df_normal[2].cep
    /\ df_normal[1].logradouro = PracaDaSe
    /\ df_normal[3].logradouro = RuaDireita
    /\ Len(df_final) = 2
    /\ df_final[1].logradouro = PracaDaSe
    /\ Aviso("inconsistente", df_normal[1].cep, 0) \in avisos

\* C12: the validated set holds at most one record per normalized 8-digit code:
\* no two of its records have keys that clean to the same code, and the record
\* kept for a code is the first of the input records with that code.
C12_ChaveNormalizadaUnica ==
    etapa = "validado" =>
        /\ \A i, j \in 1..Len(df_final) :
            Limpo(df_final[i].cep) = Limpo(df_final[j].cep) => i = j
        /\ \A i \in 1..Len(df_final) :
            \E k \in 1..Len(df_normal) :
                /\ df_final[i] = SubstituirEmBranco(df_normal[k])
                /\ \A j \in 1..(k - 1) : Limpo(df_normal[j].cep) # Limpo(df_normal[k].cep)

=============================================================================
